---- MODULE Spec2Model ----
(***************************************************************************)
(* Model of extensions/json-language-features/client/src/browser/          *)
(* jsonClientMain.ts: the browser bootstrap `activate` and the             *)
(* BookTreeViewProvider (book discovery, tree materialisation, the         *)
(* path-to-node cache, the open operations and the openMarkdown throttle). *)
(*                                                                         *)
(* Host calls (vscode, fs, glob, Worker, startClient) are the environment: *)
(* each one's outcome is drawn with \E from the outcomes the host can      *)
(* produce.  `last` records the handler that ran in the last step: its     *)
(* arguments, the host calls it made in order (`effects`), what it         *)
(* returned and whether it threw.                                          *)
(***************************************************************************)
EXTENDS Integers, Sequences, FiniteSets, TLC

VARIABLES
    _resource,        \* BookTreeViewProvider._resource (line 67)
    _throttleTimer,   \* BookTreeViewProvider._throttleTimer (line 66); 0 is undefined
    timers,           \* the host's pending setTimeout callbacks: [id, resource]
    nextTimer,        \* the next timer handle setTimeout returns
    runExec,          \* 'markdown.showPreview' executions in the current run of same-resource calls
    opening,          \* openNotebook calls suspended at `await workspace.openTextDocument`
    activations,      \* number of times activate() ran
    workerOf,         \* activation -> the Worker it constructed (0: none)
    closures,         \* the newLanguageClient closures handed to startClient
    clients,          \* the LanguageClient objects built so far
    workspaceFolders, \* vscode workspace.workspaceFolders
    listening,        \* _listener is registered (line 74) and not disposed
    _tableOfContentPaths, \* BookTreeViewProvider._tableOfContentPaths (line 63)
    _allNotebooks,    \* BookTreeViewProvider._allNotebooks (line 64): path -> item
    scans,            \* getTableOfContentFiles calls suspended at `await glob`
    bookOpened,       \* the value last set for the 'bookOpened' context
    registered,       \* paths getSections found as existing notebooks (history)
    last              \* the handler run by the last step

throttleVars == <<_resource, _throttleTimer, timers, nextTimer, runExec>>
openVars     == <<opening>>
activateVars == <<activations, workerOf, closures, clients>>
treeVars     == <<workspaceFolders, listening, _tableOfContentPaths, _allNotebooks,
                 scans, bookOpened, registered>>
vars == <<throttleVars, openVars, activateVars, treeVars, last>>

----------------------------------------------------------------------------
(* Bounds *)
MaxTimers      == 3   \* setTimeout handles handed out
MaxOpening     == 2   \* openNotebook calls suspended at once
MaxActivations == 3   \* runs of activate()
MaxClients     == 2   \* language clients one startClient call builds

Undefined == "undefined"
Resources == {"a.md", "b.md"}

\* How a host call can end: it returns, it throws synchronously, or it returns a
\* Thenable that rejects later.
Sync     == {"ok", "throw"}
Thenable == {"ok", "throw", "reject"}

\* One host call made by a handler, in the order the handler made it.
Eff(api, key, arg, outcome) == [api |-> api, key |-> key, arg |-> arg, outcome |-> outcome]

ShowError(key, arg) == Eff("window.showErrorMessage", key, arg, "ok")

----------------------------------------------------------------------------
(* openMarkdown and its throttle *)

\* The action closure openMarkdown hands to runThrottledAction: the command's
\* synchronous throw is caught and shown; a rejected Thenable is dropped.
MarkdownAction(resource, o) ==
    <<Eff("commands.executeCommand", "markdown.showPreview", resource, o)>>
    \o (IF o = "throw" THEN <<ShowError("openMarkdownError", resource)>> ELSE <<>>)

\* clearTimeout(handle): a pending callback with that handle is dropped.
ClearTimeout(ts, handle) == {t \in ts : t.id # handle}

\* Variant: the handle is forgotten on a resource change but clearTimeout is not called.
CancelKeepsCallback(isResourceChange) ==
    [timers |-> timers, timer |-> IF isResourceChange THEN 0 ELSE _throttleTimer]

\* if (isResourceChange) { clearTimeout(this._throttleTimer); this._throttleTimer = undefined; }
CancelOnChange(isResourceChange) ==
    IF isResourceChange
    THEN [timers |-> ClearTimeout(timers, _throttleTimer), timer |-> 0]
    ELSE [timers |-> timers, timer |-> _throttleTimer]

\* Variant: the pending check of line 143 is dropped.
AlwaysSchedule(timer) == TRUE

\* if (!this._throttleTimer): "Schedule update if none is pending"
NonePending(timer) == timer = 0

\* runThrottledAction(resource, action), as called by openMarkdown(resource);
\* o is how commands.executeCommand ends if the action runs in this call.
OpenMarkdown(resource, o) ==
    LET isResourceChange == resource # _resource
        c == CancelOnChange(isResourceChange)
        run == NonePending(c.timer) /\ isResourceChange
        schedule == NonePending(c.timer) /\ ~isResourceChange
    IN  /\ schedule => nextTimer <= MaxTimers
        /\ _resource' = resource
        /\ _throttleTimer' = IF schedule THEN nextTimer ELSE c.timer
        /\ timers' = IF schedule
                     THEN c.timers \cup {[id |-> nextTimer, resource |-> resource]}
                     ELSE c.timers
        /\ nextTimer' = IF schedule THEN nextTimer + 1 ELSE nextTimer
        /\ runExec' = IF isResourceChange THEN (IF run THEN 1 ELSE 0) ELSE runExec
        /\ last' = [op |-> "openMarkdown", arg |-> resource,
                    isResourceChange |-> isResourceChange, scheduled |-> schedule,
                    effects |-> IF run THEN MarkdownAction(resource, o) ELSE <<>>,
                    threw |-> FALSE]
        /\ UNCHANGED <<openVars, activateVars, treeVars>>

\* The setTimeout(() => action(), 300) callback: it runs the action and leaves
\* _throttleTimer as it is.
TimerFire(t, o) ==
    /\ t \in timers
    /\ timers' = timers \ {t}
    /\ runExec' = runExec + 1
    /\ last' = [op |-> "timer", arg |-> t.resource,
                effects |-> MarkdownAction(t.resource, o), threw |-> FALSE]
    /\ UNCHANGED <<_resource, _throttleTimer, nextTimer, openVars, activateVars, treeVars>>

----------------------------------------------------------------------------
(* openNotebook, openExternalLink *)

\* openNotebook up to its await: workspace.openTextDocument either throws (caught by
\* the try around the await) or returns the promise the function suspends on.
OpenNotebook(resource, o) ==
    /\ o = "pending" => Len(opening) < MaxOpening
    /\ opening' = IF o = "pending" THEN Append(opening, resource) ELSE opening
    /\ last' = [op |-> "openNotebook", arg |-> resource,
                effects |-> <<Eff("workspace.openTextDocument", "", resource, o)>>
                            \o (IF o = "throw"
                                THEN <<ShowError("openNotebookError", resource)>>
                                ELSE <<>>),
                threw |-> FALSE]
    /\ UNCHANGED <<throttleVars, activateVars, treeVars>>

\* openNotebook after its await: the promise rejected (caught), or it resolved and
\* window.showTextDocument(doc) is called without await.
OpenNotebookResume(i, o1, o2) ==
    /\ i \in 1..Len(opening)
    /\ LET resource == opening[i] IN
        /\ opening' = SubSeq(opening, 1, i - 1) \o SubSeq(opening, i + 1, Len(opening))
        /\ last' = [op |-> "openNotebook.resume", arg |-> resource,
                    effects |->
                        <<Eff("workspace.openTextDocument", "", resource, o1)>>
                        \o (IF o1 = "reject"
                            THEN <<ShowError("openNotebookError", resource)>>
                            ELSE <<Eff("window.showTextDocument", "", resource, o2)>>
                                 \o (IF o2 = "throw"
                                     THEN <<ShowError("openNotebookError", resource)>>
                                     ELSE <<>>)),
                    threw |-> FALSE]
    /\ UNCHANGED <<throttleVars, activateVars, treeVars>>

OpenExternalLink(resource, oParse, oOpen) ==
    /\ last' = [op |-> "openExternalLink", arg |-> resource,
                effects |->
                    <<Eff("Uri.parse", "", resource, oParse)>>
                    \o (IF oParse = "throw"
                        THEN <<ShowError("openExternalLinkError", resource)>>
                        ELSE <<Eff("env.openExternal", "", resource, oOpen)>>
                             \o (IF oOpen = "throw"
                                 THEN <<ShowError("openExternalLinkError", resource)>>
                                 ELSE <<>>)),
                threw |-> FALSE]
    /\ UNCHANGED <<throttleVars, openVars, activateVars, treeVars>>

----------------------------------------------------------------------------
(* The book tree provider: discovery of toc.yml files *)

MaxScans    == 2   \* getTableOfContentFiles calls suspended at once
MaxSections == 2   \* sections in one getChildren argument

\* A value that is not there: an unset setting, glob's unlimited depth.
NoValue == <<>>

\* maxDepth = 5 (line 95)
DefaultDepth == 5

\* Paths are sequences of segments.
Dirname(p) == SubSeq(p, 1, Len(p) - 1)
Join(p, q) == p \o q
IsPrefix(p, q) == Len(p) <= Len(q) /\ SubSeq(q, 1, Len(p)) = p

W1 == <<"w1">>
W2 == <<"w2">>
Toc1  == <<"w1", "book", "_data", "toc.yml">>
Toc1b == <<"w1", "docs", "v2", "_data", "toc.yml">>
Toc2  == <<"w2", "a", "b", "c", "d", "book", "_data", "toc.yml">>
DiskTocs == <<Toc1, Toc1b, Toc2>>

\* workspace.workspaceFolders is undefined when no workspace is open.
UndefinedFolders == << <<Undefined>> >>

\* The values of the notebook.maxBookSearchDepth setting.
CfgDepths == {NoValue, <<-1>>, <<0>>, <<2>>}

\* glob(<folder>/**/_data/toc.yml, { deep }): the toc.yml files under the folder,
\* at most `deep` directories down when deep is given.
Glob(folder, deep) ==
    SelectSeq(DiskTocs, LAMBDA t :
        /\ IsPrefix(folder, t)
        /\ (deep = NoValue \/ Len(t) - Len(folder) - 1 <= deep[1]))

\* Variant: `<= 0` in place of `< 0` at line 94, so that 0 gives the default.
SearchDepthZeroDefaults(cfg) ==
    IF cfg = NoValue \/ cfg[1] <= 0 THEN <<DefaultDepth>> ELSE cfg

\* lines 92-98: the depth handed to glob for the setting cfg.
SearchDepth(cfg) ==
    IF cfg = NoValue \/ cfg[1] < 0 THEN <<DefaultDepth>>
    ELSE IF cfg[1] = 0 THEN NoValue
    ELSE cfg

ContextArg(paths) == IF Len(paths) > 0 THEN "true" ELSE "false"

\* The end of getTableOfContentFiles (lines 105-107), and of refresh (line 83)
\* when refresh awaited it.
ScanEndEffects(paths, refresh) ==
    <<Eff("commands.executeCommand", "setContext:bookOpened", ContextArg(paths), "ok"),
      Eff("_onReadAllTOCFiles.fire", "", "", "ok")>>
    \o (IF refresh THEN <<Eff("_onDidChangeTreeData.fire", "", "", "ok")>> ELSE <<>>)

\* getTableOfContentFiles(folders) up to its first await, with _tableOfContentPaths
\* = paths, the suspended calls pending and the context value context: what the provider's state becomes and what the call did.
ScanStart(folders, cfg, refresh, paths, pending, context) ==
    IF folders = UndefinedFolders
    THEN \* workspaceFolders.map throws: the async function's promise rejects
         [scans |-> pending, bookOpened |-> context, effects |-> <<>>,
          globs |-> <<>>, threw |-> TRUE]
    ELSE IF folders = <<>>
    THEN [scans |-> pending, bookOpened |-> ContextArg(paths),
          effects |-> ScanEndEffects(paths, refresh), globs |-> <<>>, threw |-> FALSE]
    ELSE [scans |-> Append(pending, [rest |-> folders, deep |-> SearchDepth(cfg),
                                     refresh |-> refresh, cfg |-> cfg]),
          bookOpened |-> context, effects |-> <<>>,
          globs |-> <<[folder |-> Head(folders), deep |-> SearchDepth(cfg)]>>,
          threw |-> FALSE]

\* refresh() up to its await (lines 80-82).
Refresh(cfg) ==
    LET r == ScanStart(workspaceFolders, cfg, TRUE, <<>>, scans, bookOpened) IN
    /\ Len(r.scans) <= MaxScans
    /\ _tableOfContentPaths' = <<>>
    /\ scans' = r.scans
    /\ bookOpened' = r.bookOpened
    /\ last' = [op |-> "refresh", arg |-> workspaceFolders, cfg |-> cfg,
                effects |-> r.effects, globs |-> r.globs, threw |-> r.threw]
    /\ UNCHANGED <<throttleVars, openVars, activateVars, workspaceFolders, listening,
                   _allNotebooks, registered>>

\* The host changes the workspace folders and fires onDidChangeWorkspaceFolders;
\* the listener of line 74, while registered, calls refresh().
WorkspaceFoldersChanged(folders, cfg) ==
    LET r == ScanStart(folders, cfg, TRUE, <<>>, scans, bookOpened) IN
    /\ folders # workspaceFolders
    /\ workspaceFolders' = folders
    /\ IF listening
       THEN /\ Len(r.scans) <= MaxScans
            /\ _tableOfContentPaths' = <<>>
            /\ scans' = r.scans
            /\ bookOpened' = r.bookOpened
            /\ last' = [op |-> "refresh", arg |-> folders, cfg |-> cfg,
                        effects |-> r.effects, globs |-> r.globs, threw |-> r.threw]
       ELSE /\ UNCHANGED <<_tableOfContentPaths, scans, bookOpened>>
            /\ last' = [op |-> "foldersChanged", arg |-> folders, effects |-> <<>>,
                        globs |-> <<>>, threw |-> FALSE]
    /\ UNCHANGED <<throttleVars, openVars, activateVars, listening, _allNotebooks, registered>>

RemoveAt(q, i) == SubSeq(q, 1, i - 1) \o SubSeq(q, i + 1, Len(q))

\* The glob promise of suspended call i settles: the loop of lines 100-104 goes on
\* to the next folder, or the call ends (lines 105-107, then line 83 for refresh).
\* A rejection ends the call: the constructor logs it, refresh() rejects.
GlobSettles(i, o) ==
    /\ i \in 1..Len(scans)
    /\ LET scan == scans[i]
           found == Glob(Head(scan.rest), scan.deep)
           paths == _tableOfContentPaths \o found
           rest == Tail(scan.rest)
       IN  IF o = "reject"
           THEN /\ scans' = RemoveAt(scans, i)
                /\ last' = [op |-> "scan", arg |-> Head(scan.rest), cfg |-> scan.cfg,
                            effects |-> IF scan.refresh THEN <<>>
                                        ELSE <<Eff("console.log", "", "", "ok")>>,
                            globs |-> <<>>, threw |-> scan.refresh]
                /\ UNCHANGED <<_tableOfContentPaths, bookOpened>>
           ELSE /\ _tableOfContentPaths' = paths
                /\ IF rest # <<>>
                   THEN /\ scans' = [scans EXCEPT ![i].rest = rest]
                        /\ last' = [op |-> "scan", arg |-> Head(scan.rest), cfg |-> scan.cfg,
                                    effects |-> <<>>,
                                    globs |-> <<[folder |-> Head(rest), deep |-> scan.deep]>>,
                                    threw |-> FALSE]
                        /\ UNCHANGED bookOpened
                   ELSE /\ scans' = RemoveAt(scans, i)
                        /\ bookOpened' = ContextArg(paths)
                        /\ last' = [op |-> "scan", arg |-> Head(scan.rest), cfg |-> scan.cfg,
                                    effects |-> ScanEndEffects(paths, scan.refresh),
                                    globs |-> <<>>, threw |-> FALSE]
    /\ UNCHANGED <<throttleVars, openVars, activateVars, workspaceFolders, listening,
                   _allNotebooks, registered>>

\* dispose(): the workspace-folder listener is disposed.
Dispose ==
    /\ listening' = FALSE
    /\ last' = [op |-> "dispose", arg |-> "", effects |-> <<>>, threw |-> FALSE]
    /\ UNCHANGED <<throttleVars, openVars, activateVars, workspaceFolders,
                   _tableOfContentPaths, _allNotebooks, scans, bookOpened, registered>>

----------------------------------------------------------------------------
(* The book tree provider: getBooks, getSections, getNavigation *)

\* How reading one book's _config.yml and toc.yml can go (lines 187-192):
\* "unreadable": fs.readFileSync throws for one of the two files;
\* "malformed": yaml.safeLoad throws, or the document is not what the code reads
\* (config.title of an empty document, flattenArray of something not an array).
ReadOutcomes == {"ok", "unreadable", "malformed"}

\* Whether the body of the try block of lines 186-201 throws.
BookThrows(read) == read # "ok"

Book(root) == [type |-> "Book", root |-> root]

\* Variant: the try/catch around the loop instead of inside it.
RECURSIVE BooksUntilFirstError(_, _, _)
BooksUntilFirstError(paths, reads, i) ==
    IF i > Len(paths) THEN [books |-> <<>>, effects |-> <<>>]
    ELSE LET root == Dirname(Dirname(paths[i])) IN
         IF BookThrows(reads[i])
         THEN [books |-> <<>>,
               effects |-> <<ShowError("openConfigFileError", Join(root, <<"_config.yml">>))>>]
         ELSE LET rest == BooksUntilFirstError(paths, reads, i + 1) IN
              [books |-> <<Book(root)>> \o rest.books, effects |-> rest.effects]

\* The loop of getBooks (lines 184-207) from entry i on: the books pushed and the
\* message boxes shown.
RECURSIVE BooksFrom(_, _, _)
BooksFrom(paths, reads, i) ==
    IF i > Len(paths) THEN [books |-> <<>>, effects |-> <<>>]
    ELSE LET root == Dirname(Dirname(paths[i]))
             rest == BooksFrom(paths, reads, i + 1)
         IN  IF BookThrows(reads[i])
             THEN [books |-> rest.books,
                   effects |-> <<ShowError("openConfigFileError",
                                           Join(root, <<"_config.yml">>))>>
                               \o rest.effects]
             ELSE [books |-> <<Book(root)>> \o rest.books, effects |-> rest.effects]

\* getBooks(), also getChildren() without an element; reads[i] is how the files
\* of entry i read in this call.
GetBooks(reads) ==
    /\ DOMAIN reads = 1..Len(_tableOfContentPaths)
    /\ LET r == BooksFrom(_tableOfContentPaths, reads, 1) IN
       last' = [op |-> "getBooks", arg |-> _tableOfContentPaths,
                caught |-> [i \in DOMAIN reads |-> BookThrows(reads[i])],
                effects |-> r.effects, ret |-> r.books, threw |-> FALSE]
    /\ UNCHANGED <<throttleVars, openVars, activateVars, treeVars>>

Urls == {"u1", "u2"}
Titles == {"Intro"}
\* A toc.yml section; url "" is a section without url.
SectionValues == [title : Titles, url : Urls \cup {""}, external : BOOLEAN]

NotebookPath(root, url) == Join(root, <<"content", url, ".ipynb">>)
MarkdownPath(root, url) == Join(root, <<"content", url, ".md">>)
ContentFiles(root) ==
    {NotebookPath(root, u) : u \in Urls} \cup {MarkdownPath(root, u) : u \in Urls}

\* Variant: the .md file is looked for before the .ipynb file.
ClassifyMarkdownFirst(s, root, exists) ==
    IF s.url # ""
    THEN IF s.external THEN "ExternalLink"
         ELSE IF MarkdownPath(root, s.url) \in exists THEN "Markdown"
         ELSE IF NotebookPath(root, s.url) \in exists THEN "Notebook"
         ELSE "Missing"
    ELSE "None"

\* The branches of lines 214-270 for one section; exists is the set of files
\* fs.existsSync finds.
Classify(s, root, exists) ==
    IF s.url # ""
    THEN IF s.external THEN "ExternalLink"
         ELSE IF NotebookPath(root, s.url) \in exists THEN "Notebook"
         ELSE IF MarkdownPath(root, s.url) \in exists THEN "Markdown"
         ELSE "Missing"
    ELSE "None"

\* Variant: a cache that keeps the latest entry only.
CachePutEvicting(cache, k, v) == [x \in {k} |-> v]

\* this._allNotebooks.set(k, v) (line 249)
CachePut(cache, k, v) ==
    [x \in DOMAIN cache \cup {k} |-> IF x = k THEN v ELSE cache[x]]

Item(type, s, root) == [type |-> type, title |-> s.title, root |-> root, page |-> s]

\* The loop of getSections (lines 213-271) from section i on; acc is the result so
\* far: the items pushed, _allNotebooks and the message boxes shown.
RECURSIVE SectionsFrom(_, _, _, _, _)
SectionsFrom(sections, root, exists, i, acc) ==
    IF i > Len(sections) THEN acc
    ELSE LET s == sections[i]
             kind == Classify(s, root, exists)
             item == Item(kind, s, root)
         IN  SectionsFrom(sections, root, exists, i + 1,
                CASE kind \in {"ExternalLink", "Markdown"} ->
                        [acc EXCEPT !.notebooks = Append(@, item)]
                  [] kind = "Notebook" ->
                        [acc EXCEPT !.notebooks = Append(@, item),
                                    !.cache = CachePut(@, NotebookPath(root, s.url), item)]
                  [] kind = "Missing" ->
                        [acc EXCEPT !.effects = Append(@, ShowError("missingFileError", s.title))]
                  [] OTHER -> acc)

\* getChildren(element) for an element; element.sections is NoValue when the
\* element has none. exists: the files of the book's content folder that exist.
GetChildren(element, exists) ==
    /\ exists \subseteq ContentFiles(element.root)
    /\ LET r == IF ~element.hasSections
                THEN [notebooks |-> <<>>, cache |-> _allNotebooks, effects |-> <<>>]
                ELSE SectionsFrom(element.sections, element.root, exists, 1,
                        [notebooks |-> <<>>, cache |-> _allNotebooks, effects |-> <<>>])
       IN  /\ _allNotebooks' = r.cache
           /\ registered' = registered \cup
                 IF element.hasSections
                 THEN {NotebookPath(element.root, element.sections[i].url) :
                          i \in {j \in 1..Len(element.sections) :
                                   /\ element.sections[j].url # ""
                                   /\ ~element.sections[j].external
                                   /\ NotebookPath(element.root, element.sections[j].url)
                                         \in exists}}
                 ELSE {}
           /\ last' = [op |-> "getChildren", arg |-> element, exists |-> exists,
                       effects |-> r.effects, ret |-> r.notebooks, threw |-> FALSE]
    /\ UNCHANGED <<throttleVars, openVars, activateVars, workspaceFolders, listening,
                   _tableOfContentPaths, scans, bookOpened>>

Elements(roots, lists) ==
    [root : roots, hasSections : {TRUE}, sections : lists]
    \cup [root : roots, hasSections : {FALSE}, sections : {NoValue}]

\* Variant: the lookup result is not tested.
NavigationForAnyUri(cache, uri, prev, next) ==
    [hasNavigation |-> TRUE, previous |-> prev, next |-> next]

\* lines 276-290: the result for the item found under uri.fsPath, prev and next
\* being the item's previousUri and nextUri.
NavigationResult(cache, uri, prev, next) ==
    IF uri \in DOMAIN cache
    THEN [hasNavigation |-> TRUE, previous |-> prev, next |-> next]
    ELSE [hasNavigation |-> FALSE, previous |-> NoValue, next |-> NoValue]

\* What an item's previousUri / nextUri can be.
NavTargets == {NoValue, <<"w1", "book", "content", "u1", ".ipynb">>}

GetNavigation(uri, prev, next) ==
    /\ last' = [op |-> "getNavigation", arg |-> uri, effects |-> <<>>,
                ret |-> NavigationResult(_allNotebooks, uri, prev, next), threw |-> FALSE]
    /\ UNCHANGED <<throttleVars, openVars, activateVars, treeVars>>

----------------------------------------------------------------------------
InitThrottle ==
    /\ _resource = Undefined
    /\ _throttleTimer = 0
    /\ timers = {}
    /\ nextTimer = 1
    /\ runExec = 0
    /\ opening = <<>>

InitActivate ==
    /\ activations = 0
    /\ workerOf = <<>>
    /\ closures = {}
    /\ clients = {}

\* A provider constructed for `folders` with the depth setting `cfg`: the
\* constructor has called getTableOfContentFiles, which ran up to its first await.
InitTree(folders, cfg) ==
    /\ workspaceFolders = folders
    /\ listening = TRUE
    /\ _allNotebooks = <<>>
    /\ registered = {}
    /\ _tableOfContentPaths = <<>>
    /\ scans = ScanStart(folders, cfg, FALSE, <<>>, <<>>, "unset").scans
    /\ bookOpened = ScanStart(folders, cfg, FALSE, <<>>, <<>>, "unset").bookOpened
    /\ last = [op |-> "constructor", arg |-> folders, cfg |-> cfg,
               effects |-> ScanStart(folders, cfg, FALSE, <<>>, <<>>, "unset").effects,
               globs |-> ScanStart(folders, cfg, FALSE, <<>>, <<>>, "unset").globs,
               threw |-> FALSE]

\* The provider of a window with no folder open.
Init == InitThrottle /\ InitActivate /\ InitTree(<<>>, NoValue)

\* The open operations of the provider.
Next ==
    \/ \E r \in Resources, o \in Thenable : OpenMarkdown(r, o)
    \/ \E t \in timers, o \in Thenable : TimerFire(t, o)
    \/ \E r \in Resources, o \in {"pending", "throw"} : OpenNotebook(r, o)
    \/ \E i \in 1..MaxOpening, o1 \in {"ok", "reject"}, o2 \in Thenable :
          OpenNotebookResume(i, o1, o2)
    \/ \E r \in Resources, oParse \in Sync, oOpen \in Thenable :
          OpenExternalLink(r, oParse, oOpen)

Spec == Init /\ [][Next]_vars

----------------------------------------------------------------------------
(* Claims about the open operations *)

IsShowPreview(e) == e.api = "commands.executeCommand" /\ e.key = "markdown.showPreview"

\* C1: in a run of consecutive openMarkdown calls naming the same resource,
\* 'markdown.showPreview' is executed at most once.
C1_AtMostOncePerRun == runExec <= 1

OpenOps == {"openNotebook", "openNotebook.resume", "openMarkdown", "timer", "openExternalLink"}
OpenApis == {"workspace.openTextDocument", "window.showTextDocument",
             "commands.executeCommand", "env.openExternal"}
Failed(e) == e.api \in OpenApis /\ e.outcome \in {"throw", "reject"}

\* C4: every failure of an open operation (opening or showing the document,
\* the markdown.showPreview command, env.openExternal) is followed by
\* window.showErrorMessage for that resource, and the operation does not throw.
C4_FailureShowsError ==
    last.op \in OpenOps =>
        /\ ~last.threw
        /\ \A i \in 1..Len(last.effects) :
              Failed(last.effects[i]) =>
                 \E j \in (i + 1)..Len(last.effects) :
                    /\ last.effects[j].api = "window.showErrorMessage"
                    /\ last.effects[j].arg = last.effects[i].arg

\* C9: a call for a different resource runs the preview within the call and
\* cancels the pending timer; a timer never runs for a resource other than the
\* one last requested.
C9_ChangeBypassesDebounce ==
    /\ (last.op = "openMarkdown" /\ last.isResourceChange) =>
          /\ Len(last.effects) >= 1
          /\ IsShowPreview(last.effects[1])
          /\ last.effects[1].arg = last.arg
          /\ timers = {}
    /\ \A t \in timers : t.resource = _resource
    /\ last.op = "timer" => last.arg = _resource

C9_Witness ==
    /\ last.op = "openMarkdown" /\ last.isResourceChange
    /\ last.arg = "b.md"
    /\ _throttleTimer = 0 /\ nextTimer > 1

\* C10: at most one debounce timer is pending, and a timer is created only by
\* an openMarkdown call for the resource of the previous call while
\* _throttleTimer is unset.
C10_SingleTimer ==
    /\ [](Cardinality(timers) <= 1)
    /\ [][timers' \ timers # {} =>
            /\ last'.op = "openMarkdown"
            /\ last'.arg = _resource
            /\ _throttleTimer = 0
            /\ Cardinality(timers' \ timers) = 1]_vars

C10_Witness == Cardinality(timers) = 1 /\ last.op = "openMarkdown" /\ last.scheduled

----------------------------------------------------------------------------
(* activate: the browser bootstrap *)

\* The newLanguageClient closure: new LanguageClient(id, name, clientOptions, worker),
\* with the worker the enclosing activate() constructed.
NewLanguageClient(closure, n) ==
    [act |-> closure.act, n |-> n, worker |-> closure.worker]

\* Variant: startClient outside the try block that constructs the Worker.
StartClientRegardless(oWorker) == TRUE

\* startClient(...) is the statement after `new Worker(serverMain)` in the try
\* block: it is reached only if the constructor returned.
ReachesStartClient(oWorker) == oWorker = "ok"

\* The host calls of activate that are made inside its try block (lines 21-37).
ActivateGuarded == {"new Worker", "startClient"}

\* A handler throws when a call outside its try blocks throws.
Escapes(effects, guarded) ==
    \E i \in 1..Len(effects) : effects[i].outcome = "throw" /\ effects[i].api \notin guarded

\* activate(context). oWorker: how `new Worker` ends; built: how many clients
\* startClient builds through the closure before it ends as oStart.
Activate(oWorker, built, oStart) ==
    /\ activations < MaxActivations
    /\ LET act == activations + 1
           started == ReachesStartClient(oWorker)
           worker == IF oWorker = "ok" THEN act ELSE 0
           closure == [act |-> act, worker |-> worker]
           failed == oWorker = "throw" \/ (started /\ oStart = "throw")
           effects ==
               <<Eff("context.asAbsolutePath", "", "server/dist/browser/jsonServerMain.js", "ok"),
                 Eff("new Worker", "", "serverMain", oWorker)>>
               \o (IF started THEN <<Eff("startClient", "", "", oStart)>> ELSE <<>>)
               \o (IF failed THEN <<Eff("console.log", "", "", "ok")>> ELSE <<>>)
       IN  /\ activations' = act
           /\ workerOf' = Append(workerOf, worker)
           /\ closures' = IF started THEN closures \cup {closure} ELSE closures
           /\ clients' = IF started
                         THEN clients \cup {NewLanguageClient(closure, n) : n \in 1..built}
                         ELSE clients
           /\ last' = [op |-> "activate", arg |-> "", effects |-> effects,
                       threw |-> Escapes(effects, ActivateGuarded)]
    /\ UNCHANGED <<throttleVars, openVars, treeVars>>

\* A later call of a closure startClient kept (the client is built again).
BuildClient(closure) ==
    /\ closure \in closures
    /\ LET mine == {c \in clients : c.act = closure.act} IN
        /\ Cardinality(mine) < MaxClients
        /\ clients' = clients \cup {NewLanguageClient(closure, Cardinality(mine) + 1)}
    /\ last' = [op |-> "newLanguageClient", arg |-> "", effects |-> <<>>, threw |-> FALSE]
    /\ UNCHANGED <<throttleVars, openVars, treeVars, activations, workerOf, closures>>

NextActivate ==
    \/ \E oWorker \in Sync, built \in 0..MaxClients, oStart \in Sync :
          Activate(oWorker, built, oStart)
    \/ \E closure \in closures : BuildClient(closure)

SpecActivate == Init /\ [][NextActivate]_vars

CallsOf(api) == {i \in 1..Len(last.effects) : last.effects[i].api = api}

\* C8: activate never throws; a throw of `new Worker` or of startClient is
\* caught and logged; startClient is called at most once per activation and only
\* after the Worker was constructed; every client built through the closure uses
\* the Worker of its activation.
C8_ActivateGuarded ==
    /\ last.op = "activate" =>
          /\ ~last.threw
          /\ (\E i \in 1..Len(last.effects) : last.effects[i].outcome = "throw")
                => last.effects[Len(last.effects)].api = "console.log"
          /\ Cardinality(CallsOf("startClient")) <= 1
          /\ \A j \in CallsOf("startClient") :
                \E i \in CallsOf("new Worker") : i < j /\ last.effects[i].outcome = "ok"
    /\ \A c \in clients : workerOf[c.act] # 0 /\ c.worker = workerOf[c.act]

C8_Witness ==
    /\ last.op = "activate"
    /\ \E i \in 1..Len(last.effects) :
          last.effects[i].api = "startClient" /\ last.effects[i].outcome = "throw"
    /\ \E c, d \in clients : c.act = d.act /\ c.n # d.n
    /\ \E a \in 1..Len(workerOf) : workerOf[a] = 0

----------------------------------------------------------------------------
(* Specifications of the book tree provider *)

\* Discovery: the constructor's scan, refreshes and folder changes under every
\* kind of depth setting.
ScanFolders == {<<>>, <<W1, W2>>, UndefinedFolders}

InitScan ==
    /\ InitThrottle /\ InitActivate
    /\ \E folders \in ScanFolders \ {UndefinedFolders}, cfg \in CfgDepths :
          InitTree(folders, cfg)

NextScan ==
    \/ \E cfg \in CfgDepths : Refresh(cfg)
    \/ \E folders \in ScanFolders, cfg \in CfgDepths :
          WorkspaceFoldersChanged(folders, cfg)
    \/ \E i \in 1..MaxScans, o \in {"ok", "reject"} : GlobSettles(i, o)

SpecScan == InitScan /\ [][NextScan]_vars

\* Tree materialisation: getChildren on the elements of one book, getNavigation.
SectionRoots == {Dirname(Dirname(Toc1))}
SectionInputs == {s \in SectionValues : (s.url = "" => s.external) /\ (s.url = "u2" => ~s.external)}
SectionFiles == {NotebookPath(root, u) : root \in SectionRoots, u \in Urls}
                \cup {MarkdownPath(root, "u1") : root \in SectionRoots}
InputLists(n) == UNION {[1..k -> SectionInputs] : k \in 0..n}

NextSections ==
    \/ \E element \in Elements(SectionRoots, InputLists(MaxSections)) :
          \E exists \in SUBSET SectionFiles : GetChildren(element, exists)
    \/ \E uri \in SectionFiles, prev \in NavTargets, next \in NavTargets :
          GetNavigation(uri, prev, next)

SpecSections == Init /\ [][NextSections]_vars

\* The whole provider, on the elements of one book with one section each.
TreeRoots == {Dirname(Dirname(Toc1))}
TreeFolders == {<<>>, <<W1>>, UndefinedFolders}
TreeSections == {s \in SectionValues : s.url # "" /\ (s.external => s.url = "u1")}
TreeUris == {NotebookPath(root, u) : root \in TreeRoots, u \in Urls}

NextTree ==
    \/ Refresh(NoValue)
    \/ \E folders \in TreeFolders : WorkspaceFoldersChanged(folders, NoValue)
    \/ \E i \in 1..MaxScans, o \in {"ok", "reject"} : GlobSettles(i, o)
    \/ \E bad \in SUBSET (1..Len(_tableOfContentPaths)), how \in ReadOutcomes \ {"ok"} :
          GetBooks([i \in 1..Len(_tableOfContentPaths) |-> IF i \in bad THEN how ELSE "ok"])
    \/ Dispose
    \/ \E element \in Elements(TreeRoots, {<<s>> : s \in TreeSections}) :
          \E exists \in SUBSET TreeUris : GetChildren(element, exists)
    \/ \E uri \in TreeUris, prev \in NavTargets, next \in NavTargets :
          GetNavigation(uri, prev, next)

SpecTree == Init /\ [][NextTree]_vars

----------------------------------------------------------------------------
(* Claims about the book tree provider *)

Indices(q) == [i \in 1..Len(q) |-> i]

\* C2: getNavigation(uri) has hasNavigation = TRUE exactly when uri.fsPath was
\* registered by getSections as an existing notebook; when it is FALSE, previous
\* and next are undefined; getNavigation leaves _allNotebooks as it is.
C2_NavigationLookup ==
    /\ [](last.op = "getNavigation" =>
            /\ last.ret.hasNavigation <=> last.arg \in registered
            /\ ~last.ret.hasNavigation =>
                  last.ret.previous = NoValue /\ last.ret.next = NoValue)
    /\ [][last'.op = "getNavigation" => _allNotebooks' = _allNotebooks]_vars

C2_Witness ==
    /\ last.op = "getNavigation" /\ last.ret.hasNavigation
    /\ last.ret.previous # NoValue
    /\ \E uri \in TreeUris : uri \notin registered
    /\ _tableOfContentPaths # <<>>

\* C3: getBooks handles every entry of _tableOfContentPaths on its own: an entry
\* whose files read yields one Book, an entry whose files fail yields one error
\* message box; the call does not throw and the books keep the entries' order.
C3_BooksGuardedPerBook ==
    last.op = "getBooks" =>
        LET paths == last.arg
            good == SelectSeq(Indices(paths), LAMBDA i : ~last.caught[i])
            bad == SelectSeq(Indices(paths), LAMBDA i : last.caught[i])
        IN  /\ ~last.threw
            /\ paths = _tableOfContentPaths
            /\ Len(last.ret) = Len(good)
            /\ \A j \in 1..Len(good) :
                  last.ret[j] = [type |-> "Book", root |-> Dirname(Dirname(paths[good[j]]))]
            /\ Len(last.effects) = Len(bad)
            /\ \A j \in 1..Len(bad) :
                  /\ last.effects[j].api = "window.showErrorMessage"
                  /\ last.effects[j].arg =
                        Join(Dirname(Dirname(paths[bad[j]])), <<"_config.yml">>)

C3_Witness ==
    /\ last.op = "getBooks"
    /\ Len(last.arg) >= 3
    /\ last.caught[1] /\ ~last.caught[2] /\ ~last.caught[3]
    /\ last.arg[2] # last.arg[3]

\* C5: no operation removes a key of _allNotebooks: every path getSections
\* registered stays a key, whatever happens to the workspace folders.
C5_NoEviction ==
    /\ [](registered \subseteq DOMAIN _allNotebooks)
    /\ [][DOMAIN _allNotebooks \subseteq DOMAIN _allNotebooks']_vars

C5_Witness ==
    /\ Cardinality(DOMAIN _allNotebooks) = 2
    /\ workspaceFolders = <<>> /\ scans = <<>> /\ _tableOfContentPaths = <<>>
    /\ ~listening
    /\ last.op = "getNavigation" /\ last.ret.hasNavigation

\* C6: the depth handed to glob is 5 when the setting is undefined or negative,
\* unlimited when it is 0 and the setting itself when it is positive, for every
\* folder of the scan.
C6_SearchDepth ==
    last.op \in {"constructor", "refresh", "scan"} =>
        \A k \in 1..Len(last.globs) :
            LET d == last.globs[k].deep
                c == last.cfg
            IN  /\ c = NoValue => d = <<5>>
                /\ (c # NoValue /\ c[1] < 0) => d = <<5>>
                /\ (c # NoValue /\ c[1] = 0) => d = NoValue
                /\ (c # NoValue /\ c[1] > 0) => d = c

C6_Witness ==
    /\ last.op = "scan" /\ last.globs # <<>> /\ last.cfg = <<0>>
    /\ last.globs[1].folder = W2
    /\ \E i \in 1..Len(scans) : scans[i].cfg = <<-1>>

\* C7: getSections classifies each section in order: url and external give an
\* ExternalLink; otherwise an existing <url>.ipynb gives a Notebook, which is
\* put in _allNotebooks, even when <url>.md exists too; otherwise an existing
\* <url>.md gives a Markdown item; otherwise an error message and no item; no
\* url gives nothing. Only Notebook items are in _allNotebooks.
C7_SectionClassification ==
    /\ (last.op = "getChildren" /\ last.arg.hasSections) =>
          LET S == last.arg.sections
              root == last.arg.root
              Nb(s) == Join(root, <<"content", s.url, ".ipynb">>)
              Md(s) == Join(root, <<"content", s.url, ".md">>)
              Kind(s) ==
                  CASE s.url = "" -> "None"
                    [] s.url # "" /\ s.external -> "ExternalLink"
                    [] s.url # "" /\ ~s.external /\ Nb(s) \in last.exists -> "Notebook"
                    [] s.url # "" /\ ~s.external /\ Nb(s) \notin last.exists
                          /\ Md(s) \in last.exists -> "Markdown"
                    [] OTHER -> "Missing"
              kept == SelectSeq(Indices(S), LAMBDA i :
                         Kind(S[i]) \in {"ExternalLink", "Notebook", "Markdown"})
              missing == SelectSeq(Indices(S), LAMBDA i : Kind(S[i]) = "Missing")
          IN  /\ Len(last.ret) = Len(kept)
              /\ \A j \in 1..Len(kept) :
                    last.ret[j] = [type |-> Kind(S[kept[j]]), title |-> S[kept[j]].title,
                                   root |-> root, page |-> S[kept[j]]]
              /\ Len(last.effects) = Len(missing)
              /\ \A j \in 1..Len(missing) :
                    /\ last.effects[j].api = "window.showErrorMessage"
                    /\ last.effects[j].arg = S[missing[j]].title
              /\ \A i \in 1..Len(S) :
                    Kind(S[i]) = "Notebook" => Nb(S[i]) \in DOMAIN _allNotebooks
    /\ \A k \in DOMAIN _allNotebooks :
          /\ _allNotebooks[k].type = "Notebook"
          /\ k = Join(_allNotebooks[k].root, <<"content", _allNotebooks[k].page.url, ".ipynb">>)

C7_Witness ==
    /\ last.op = "getChildren" /\ last.arg.hasSections
    /\ Len(last.arg.sections) = 2
    /\ last.arg.sections[1].url = "u2" /\ Len(last.effects) = 1
    /\ last.arg.sections[2].url = "u1" /\ ~last.arg.sections[2].external
    /\ {NotebookPath(last.arg.root, "u1"), MarkdownPath(last.arg.root, "u1")}
          \subseteq last.exists
    /\ Len(last.ret) = 1 /\ last.ret[1].type = "Notebook"

----------------------------------------------------------------------------
(* The throttle after its timer has fired *)

\* C11: an openMarkdown call for a resource whose debounce timer has already
\* fired is followed by a preview of that resource with no call for another
\* resource in between: the call runs the preview itself or leaves a timer
\* pending for it (a call that does neither is never followed by one, as only
\* openMarkdown calls create timers).
C11_NeverBlocked ==
    (last.op = "openMarkdown" /\ ~last.isResourceChange) =>
        \/ \E i \in 1..Len(last.effects) : IsShowPreview(last.effects[i])
        \/ \E t \in timers : t.resource = last.arg

----------------------------------------------------------------------------
(* Overlapping scans and the bookOpened context *)

\* C12: once every suspended getTableOfContentFiles call has ended, whether it
\* was started by the constructor or by a refresh, no toc.yml path occurs in
\* _tableOfContentPaths more than once (getBooks pushes one Book per entry).
C12_NoDuplicateBooks ==
    scans = <<>> =>
        \A i, j \in 1..Len(_tableOfContentPaths) :
            _tableOfContentPaths[i] = _tableOfContentPaths[j] => i = j

\* C13: when no getTableOfContentFiles call is suspended and the context has
\* been set, the value last given to setContext for 'bookOpened' says whether
\* _tableOfContentPaths is non-empty; and the step that completes a refresh
\* sets the context, then fires onReadAllTOCFiles once, then onDidChangeTreeData
\* once, and nothing else.
C13_ContextTracksScan ==
    LET e == last.effects
        completesRefresh ==
            \E i \in 1..Len(e) : e[i].api = "_onDidChangeTreeData.fire"
    IN  /\ (scans = <<>> /\ bookOpened # "unset") =>
               bookOpened = ContextArg(_tableOfContentPaths)
        /\ (last.op \in {"refresh", "scan"} /\ completesRefresh) =>
               /\ Len(e) = 3
               /\ e[1].api = "commands.executeCommand"
               /\ e[1].key = "setContext:bookOpened"
               /\ e[2].api = "_onReadAllTOCFiles.fire"
               /\ e[3].api = "_onDidChangeTreeData.fire"
====
